---- MODULE Spec2Model ----
(***************************************************************************)
(* Model of the room / session relay core of the hotel translation server. *)
(*                                                                         *)
(* src/server.js holds two servers back to back: the first one             *)
(* (lines 1-517, client class SarvamAIClient, join_room validates its      *)
(* fields) and the second one (lines 519-931, client SarvamClient of       *)
(* src/sarvam_integration.js, no validation).  The variable `variant`      *)
(* says which server runs: "v1" or "v2".  src/unnamed/part_000 is a third  *)
(* copy whose socket handlers behave as the first server's.                *)
(*                                                                         *)
(* Every socket handler runs to completion on the single event loop, so a  *)
(* handler is one action; an async handler is cut at its awaits.           *)
(***************************************************************************)
EXTENDS Integers, Sequences, FiniteSets, TLC

\* ------------------------------------------------------------------ bounds
NumConns == 2
MaxMsgs == 1
MaxNow == 2

\* ------------------------------------------------------------------ values
Absent == "undefined"

Conns == 1..NumConns
Slots == 1..MaxMsgs
NoConn == 0

Rooms == {"r1", "r2"}
Roles == {"host", "guest"}
Langs == {"hi-IN", "en-IN", "ta-IN"}

\* the language of a join_room event: left out (the default applies), or English
LangInputs == {Absent, "en-IN"}

\* join_room events: the well-formed ones, and ones that lack room, role or both
JoinInputs ==
  [room : Rooms, role : Roles, language : LangInputs]
    \cup { [room |-> Absent, role |-> "guest", language |-> Absent],
            [room |-> "r1", role |-> Absent, language |-> Absent],
            [room |-> Absent, role |-> Absent, language |-> Absent] }

\* audio_message / text_message events; a language or target they name is one
\* that is neither the default nor the reply language
MessageLangInputs == {Absent, "ta-IN"}

MessageInputs ==
  [room : Rooms, role : Roles, language : MessageLangInputs,
   targetLanguage : MessageLangInputs]
    \cup { [room |-> Absent, role |-> "guest", language |-> Absent,
             targetLanguage |-> Absent] }

DefaultLanguage == "hi-IN"
ReplyLanguage == "en-IN"
DefaultHotelName == "Unknown Hotel"

Falsy(x) == x = Absent

languageNames(l) ==
  CASE l = "hi-IN" -> "Hindi"
    [] l = "en-IN" -> "English"
    [] l = "ta-IN" -> "Tamil"
    [] OTHER -> l

toSarvamLang(code) ==
  CASE code = "hi-IN" -> "hi"
    [] code = "en-IN" -> "en"
    [] code = "ta-IN" -> "ta"
    [] OTHER -> "undefined"

VARIABLES
  variant,      \* which server of src/server.js runs
  now,          \* the clock (new Date()), in ticks
  conn,         \* socket id -> "new" | "open" | "closed"
  activeRooms,  \* Map roomId -> [hotelName, createdAt, users]
  userRoles,    \* Map socketId -> [room, role, language]
  joined,       \* socket.io adapter: socket id -> set of rooms it is in
  timers,       \* pending cleanup timers, in the order they were set
  msgs,         \* pipeline instances (async handler activations)
  running,      \* the handler that holds the event loop, or Nobody
  out           \* the events that handler has emitted, in order

vars == <<variant, now, conn, activeRooms, userRoles, joined, timers, msgs, running, out>>

\* ------------------------------------------------------------------ maps
Has(map, k) == k \in DOMAIN map

MapSet(map, k, v) == [x \in DOMAIN map \cup {k} |-> IF x = k THEN v ELSE map[x]]

MapDelete(map, k) == [x \in DOMAIN map \ {k} |-> map[x]]

EmptyMap == [x \in {} |-> Absent]

\* mutant: the connection stays in the users set it should leave
UsersDelete_Keeps(rooms, r, c) == rooms

UsersDelete(rooms, r, c) ==
  IF Has(rooms, r)
    THEN [rooms EXCEPT ![r].users = @ \ {c}]
    ELSE rooms

\* ------------------------------------------------------------------ events
\* socket.emit(...): to the one socket
ToSocket(c) == {c}

\* mutant: the emit goes to every socket that is in some room
ToRoom_AnyRoom(j, room) == {c \in Conns : j[c] # {}}

\* io.to(room).emit(...): to every socket that is in the socket.io room
ToRoom(j, room) == {c \in Conns : room \in j[c]}

\* mutant: the emitting socket gets the event too
ToOthers_Self(j, room, c) == ToRoom(j, room)

\* socket.to(room).emit(...): the room without the emitting socket
ToOthers(j, room, c) == ToRoom(j, room) \ {c}

ErrorEvent(c, message, detail) ==
  [type |-> "error", to |-> ToSocket(c), message |-> message, detail |-> detail]

RoomStats(j, rooms, room) ==
  [type |-> "room_stats", to |-> ToRoom(j, room), room |-> room,
   userCount |-> Cardinality(rooms[room].users),
   hotelName |-> rooms[room].hotelName]

\* the socket is bound to this room already, with another language
Relabels(c, room, language) ==
  /\ Has(userRoles, c)
  /\ userRoles[c].room = room
  /\ userRoles[c].language # language

\* the handler that holds the event loop: its event, its socket, the room it
\* works on (Absent when it works on none), and whether it is a join_room that
\* found its socket in the room already, bound with another language
Nobody == [op |-> "none", conn |-> NoConn, room |-> Absent, relabel |-> FALSE]

Handler(op, c, room) == [op |-> op, conn |-> c, room |-> room, relabel |-> FALSE]

IdleMsg ==
  [pc |-> "idle", sender |-> NoConn, room |-> Absent, role |-> Absent,
   kind |-> Absent, language |-> Absent, target |-> Absent, log |-> <<>>]

\* ------------------------------------------------------------------ init
InitState ==
  /\ now = 0
  /\ conn = [c \in Conns |-> "new"]
  /\ activeRooms = EmptyMap
  /\ userRoles = EmptyMap
  /\ joined = [c \in Conns |-> {}]
  /\ timers = <<>>
  /\ msgs = [m \in Slots |-> IdleMsg]
  /\ running = Nobody
  /\ out = <<>>

Init == variant = "v1" /\ InitState

InitV2 == variant = "v2" /\ InitState

\* ------------------------------------------------------------------ connection
\* io.on('connection'): only registers the handlers
\* socket ids are fresh: the k-th connection of a run gets id k
Connect(c) ==
  /\ running = Nobody
  /\ running' = Handler("connection", c, Absent)
  /\ conn[c] = "new"
  /\ \A d \in Conns : d < c => conn[d] # "new"
  /\ conn' = [conn EXCEPT ![c] = "open"]
  /\ out' = <<>>
  /\ UNCHANGED <<variant, now, activeRooms, userRoles, joined, timers, msgs>>

\* ------------------------------------------------------------------ join_room
JoinRejects(room, role) == variant = "v1" /\ (Falsy(room) \/ Falsy(role))

PrevRoom(c) == IF Has(userRoles, c) THEN userRoles[c].room ELSE Absent

\* a room as it is created: nobody in it yet
NewRoom(hotelName) == [hotelName |-> hotelName, createdAt |-> now, users |-> {}]

\* mutant: the room record is made anew at every join
JoinRooms_Recreates(c, room) ==
  LET prev == PrevRoom(c)
      left == IF Falsy(prev) THEN activeRooms ELSE UsersDelete(activeRooms, prev, c)
      made == MapSet(left, room,
                     [NewRoom(DefaultHotelName) EXCEPT
                        !.users = IF Has(left, room) THEN left[room].users ELSE {}])
  IN [made EXCEPT ![room].users = @ \cup {c}]

\* mutant: the socket is taken out of its previous room after it was put into the
\* new one
JoinRooms_LeaveLast(c, room) ==
  LET prev == PrevRoom(c)
      made == IF Has(activeRooms, room)
                THEN activeRooms
                ELSE MapSet(activeRooms, room, NewRoom(DefaultHotelName))
      added == [made EXCEPT ![room].users = @ \cup {c}]
  IN IF Falsy(prev) THEN added ELSE UsersDelete(added, prev, c)

\* the registry after "leave previous room" and "join new room"
JoinRooms(c, room) ==
  LET prev == PrevRoom(c)
      left == IF Falsy(prev) THEN activeRooms ELSE UsersDelete(activeRooms, prev, c)
      made == IF Has(left, room)
                THEN left
                ELSE MapSet(left, room, NewRoom(DefaultHotelName))
  IN [made EXCEPT ![room].users = @ \cup {c}]

JoinSockets(c, room) ==
  LET prev == PrevRoom(c)
      left == IF Falsy(prev) THEN joined[c] ELSE joined[c] \ {prev}
  IN [joined EXCEPT ![c] = left \cup {room}]

JoinRoom(c, data) ==
  LET room == data.room
      role == data.role
      language == IF data.language = Absent THEN DefaultLanguage ELSE data.language
  IN
  /\ running = Nobody
  /\ running' = [Handler("join_room", c, room) EXCEPT !.relabel = Relabels(c, room, language)]
  /\ conn[c] = "open"
  /\ IF JoinRejects(room, role)
       THEN /\ out' = <<ErrorEvent(c, "room and role are required", Absent)>>
            /\ UNCHANGED <<activeRooms, userRoles, joined>>
       ELSE /\ activeRooms' = JoinRooms(c, room)
            /\ joined' = JoinSockets(c, room)
            /\ userRoles' = MapSet(userRoles, c,
                                   [room |-> room, role |-> role, language |-> language])
            /\ out' = << [type |-> "room_joined", to |-> ToSocket(c), room |-> room,
                          role |-> role, language |-> languageNames(language)],
                         [type |-> "user_joined", to |-> ToOthers(joined', room, c),
                          room |-> room, role |-> role,
                          language |-> languageNames(language), userId |-> c],
                         RoomStats(joined', activeRooms', room) >>
  /\ UNCHANGED <<variant, now, conn, timers, msgs>>

\* ------------------------------------------------------------------ get_room_info
GetRoomInfo(c, room) ==
  /\ running = Nobody
  /\ running' = Handler("get_room_info", c, room)
  /\ conn[c] = "open"
  /\ out' = IF Has(activeRooms, room)
              THEN << [type |-> "room_info", to |-> ToSocket(c), room |-> room,
                       hotelName |-> activeRooms[room].hotelName,
                       createdAt |-> activeRooms[room].createdAt,
                       userCount |-> Cardinality(activeRooms[room].users)] >>
              ELSE <<>>
  /\ UNCHANGED <<variant, now, conn, activeRooms, userRoles, joined, timers, msgs>>

\* ------------------------------------------------------------------ disconnect
\* mutant: no timer is set
ScheduleCleanup_Never(ts, rooms, room) == ts

\* mutant: a timer is set at every disconnect
ScheduleCleanup_Always(ts, rooms, room) == Append(ts, room)

\* setTimeout(..., 5 * 60 * 1000) when the room has just become empty
ScheduleCleanup(ts, rooms, room) ==
  IF rooms[room].users = {} THEN Append(ts, room) ELSE ts

\* mutant: user_left is announced before the handler looks for the binding
Disconnect_Announces(c) ==
  LET j == [joined EXCEPT ![c] = {}]
      bound == Has(userRoles, c)
      room == userRoles[c].room
      inReg == bound /\ Has(activeRooms, room)
      rooms == IF inReg THEN UsersDelete(activeRooms, room, c) ELSE activeRooms
  IN
  /\ running = Nobody
  /\ running' = Handler("disconnect", c, IF bound THEN room ELSE Absent)
  /\ conn[c] = "open"
  /\ conn' = [conn EXCEPT ![c] = "closed"]
  /\ joined' = j
  /\ activeRooms' = rooms
  /\ out' = IF inReg
              THEN << [type |-> "user_left", to |-> ToOthers(j, room, c), room |-> room,
                       role |-> userRoles[c].role, userId |-> c],
                      RoomStats(j, rooms, room) >>
              ELSE << [type |-> "user_left", to |-> {}, room |-> Absent,
                       role |-> Absent, userId |-> c] >>
  /\ timers' = IF inReg THEN ScheduleCleanup(timers, rooms, room) ELSE timers
  /\ userRoles' = IF bound THEN MapDelete(userRoles, c) ELSE userRoles
  /\ UNCHANGED <<variant, now, msgs>>

\* socket.io has taken the socket out of all its rooms when 'disconnect' is emitted
Disconnect(c) ==
  LET j == [joined EXCEPT ![c] = {}]
      bound == Has(userRoles, c)
      room == userRoles[c].room
      inReg == bound /\ Has(activeRooms, room)
      rooms == IF inReg THEN UsersDelete(activeRooms, room, c) ELSE activeRooms
  IN
  /\ running = Nobody
  /\ running' = Handler("disconnect", c, IF bound THEN room ELSE Absent)
  /\ conn[c] = "open"
  /\ conn' = [conn EXCEPT ![c] = "closed"]
  /\ joined' = j
  /\ activeRooms' = rooms
  /\ out' = IF inReg
              THEN << [type |-> "user_left", to |-> ToOthers(j, room, c), room |-> room,
                       role |-> userRoles[c].role, userId |-> c],
                      RoomStats(j, rooms, room) >>
              ELSE <<>>
  /\ timers' = IF inReg THEN ScheduleCleanup(timers, rooms, room) ELSE timers
  /\ userRoles' = IF bound THEN MapDelete(userRoles, c) ELSE userRoles
  /\ UNCHANGED <<variant, now, msgs>>

\* ------------------------------------------------------------------ cleanup timer
\* mutant: the timer deletes without looking at the users set again
CleanupDeletes_Unchecked(rooms, room) ==
  IF Has(rooms, room) THEN MapDelete(rooms, room) ELSE rooms

\* the timer's callback: delete the room if it is (still) there and empty
CleanupDeletes(rooms, room) ==
  IF Has(rooms, room) /\ rooms[room].users = {}
    THEN MapDelete(rooms, room)
    ELSE rooms

\* all timers have the same delay, so they fire in the order they were set
CleanupFires ==
  LET room == Head(timers)
  IN
  /\ running = Nobody
  /\ timers # <<>>
  /\ running' = Handler("cleanup", NoConn, room)
  /\ timers' = Tail(timers)
  /\ activeRooms' = CleanupDeletes(activeRooms, room)
  /\ out' = <<>>
  /\ UNCHANGED <<variant, now, conn, userRoles, joined, msgs>>

\* ------------------------------------------------------------------ pipeline
\* mutant: any bound socket may speak in any room
Authorized_AnyRoom(c, room) == Has(userRoles, c)

Authorized(c, room) == Has(userRoles, c) /\ userRoles[c].room = room

\* the activations the run has room for
Live == DOMAIN msgs

\* mutant: a message is taken up only when no other one is under way
FreeSlot_OneAtATime(m) ==
  /\ msgs[m].pc = "idle"
  /\ \A n \in Live : msgs[n].pc = "idle"

\* the pipeline instance a new message runs in: the first one that is not running
FreeSlot(m) ==
  /\ msgs[m].pc = "idle"
  /\ \A n \in Live : n < m => msgs[n].pc # "idle"

\* mutant: a handler that resumes drops every other activation
Settle_Alone(m, next) == [n \in DOMAIN msgs |-> IF n = m THEN next ELSE IdleMsg]

\* a handler that resumes works on its own locals: no other activation changes
Settle(m, next) == [msgs EXCEPT ![m] = next]

StatusEvent(status, speaker) ==
  [type |-> "processing_status", status |-> status, speaker |-> speaker]

HttpCall(service, source, target) ==
  [type |-> "http", service |-> service, source |-> source, target |-> target]

TranslationEvent(speaker, text, source, target, confidence) ==
  [type |-> "translation", speaker |-> speaker, text |-> text,
   originalLanguage |-> source, translatedLanguage |-> target,
   confidence |-> confidence]

ErrorEntry(message, detail) == [type |-> "error", message |-> message, detail |-> detail]

\* mutant: a pipeline whose socket is gone emits to nobody
Emitted_OpenSender(e, c, room) ==
  IF e.type = "error"
    THEN ErrorEvent(c, e.message, e.detail)
    ELSE [type |-> e.type,
          to |-> IF conn[c] = "open" THEN ToRoom(joined, room) ELSE {},
          room |-> room, body |-> e]

\* an entry of a pipeline's log as the event the sockets get
Emitted(e, c, room) ==
  IF e.type = "error"
    THEN ErrorEvent(c, e.message, e.detail)
    ELSE [type |-> e.type, to |-> ToRoom(joined, room), room |-> room, body |-> e]

RECURSIVE EmitAll(_, _, _)
EmitAll(entries, c, room) ==
  IF entries = <<>>
    THEN <<>>
    ELSE IF Head(entries).type = "http"
           THEN EmitAll(Tail(entries), c, room)
           ELSE <<Emitted(Head(entries), c, room)>> \o EmitAll(Tail(entries), c, room)

resolveTargetLanguage(role, socketId, explicitTarget) ==
  IF explicitTarget # Absent THEN explicitTarget
  ELSE IF role = "guest" THEN ReplyLanguage
  ELSE IF Has(userRoles, socketId) THEN userRoles[socketId].language
  ELSE DefaultLanguage

\* second server: role === 'guest' ? 'en-IN' : userInfo.language || 'hi-IN'
TargetV2(role, userInfo) ==
  IF role = "guest" THEN ReplyLanguage ELSE userInfo.language

\* the language field after the handler's destructuring
MessageLanguage(lang) ==
  IF variant = "v1" /\ lang = Absent THEN DefaultLanguage ELSE lang

TextSource(role, language, userInfo) ==
  IF language # Absent THEN language
  ELSE IF role = "guest" THEN userInfo.language
  ELSE ReplyLanguage

\* SarvamClient.translate answers without a request when both codes agree
SkipsRequest(source, target) ==
  variant = "v2" /\ source # Absent /\ source = target

Confidence(kind) == IF kind = "audio" THEN "stt" ELSE "1.0"

\* mutant: complete is announced before the translation is sent
Delivered_CompleteFirst(msg, text) ==
  << StatusEvent("complete", Absent),
     TranslationEvent(msg.role, text, msg.language, msg.target, Confidence(msg.kind)) >>

\* what follows a translation result: the translation event, then complete
Delivered(msg, text) ==
  << TranslationEvent(msg.role, text, msg.language, msg.target, Confidence(msg.kind)),
     StatusEvent("complete", Absent) >>

\* the catch blocks: an error to the sender, then the error status
Failed(message, detail) ==
  << ErrorEntry(message, detail), StatusEvent("error", Absent) >>

\* mutant: the failure is swallowed and the pipeline delivers an empty transcript
TranscribeFailure_Delivers(msg) ==
  << StatusEvent("translating", msg.role) >> \o Delivered(msg, "original")

\* SarvamAIClient.transcribe / SarvamClient.transcribe throw when the request fails
TranscribeFailure(msg) ==
  Failed("Failed to process audio message",
         IF variant = "v1" THEN "Failed to transcribe audio" ELSE "STT failed")

\* the handler has returned: its activation is gone
Finish(msg, entries) == IdleMsg

\* the handler from `translating` on, up to its next await or its end
Translating(msg) ==
  LET entries == <<StatusEvent("translating", msg.role)>>
  IN IF SkipsRequest(msg.language, msg.target)
       THEN [next |-> Finish(msg, entries \o Delivered(msg, "original")),
             entries |-> entries \o Delivered(msg, "original")]
       ELSE [next |-> [msg EXCEPT !.pc = "translate",
                         !.log = msg.log \o entries
                                   \o <<HttpCall("translate", msg.language, msg.target)>>],
             entries |-> entries]

Reject(c) ==
  /\ out' = <<ErrorEvent(c, "Not authorized for this room", Absent)>>
  /\ UNCHANGED msgs

AudioMessage(c, data) ==
  /\ running = Nobody
  /\ running' = Handler("audio_message", c,
                        IF Authorized(c, data.room) THEN data.room ELSE Absent)
  /\ conn[c] = "open"
  /\ IF ~Authorized(c, data.room)
       THEN Reject(c)
       ELSE \E m \in Live :
              LET room == data.room
                  role == data.role
                  explicitTarget == data.targetLanguage
                  language == MessageLanguage(data.language)
                  hint == IF language = Absent THEN DefaultLanguage ELSE language
                  entries == <<StatusEvent("transcribing", role)>>
                  msg == [pc |-> "stt", sender |-> c, room |-> room, role |-> role,
                          kind |-> "audio", language |-> language,
                          target |-> IF variant = "v1" THEN explicitTarget
                                     ELSE TargetV2(role, userRoles[c]),
                          log |-> entries \o <<HttpCall("stt", hint, Absent)>>]
              IN /\ FreeSlot(m)
                 /\ msgs' = [msgs EXCEPT ![m] = msg]
                 /\ out' = EmitAll(entries, c, room)
  /\ UNCHANGED <<variant, now, conn, activeRooms, userRoles, joined, timers>>

TextMessage(c, data) ==
  /\ running = Nobody
  /\ running' = Handler("text_message", c,
                        IF Authorized(c, data.room) THEN data.room ELSE Absent)
  /\ conn[c] = "open"
  /\ IF ~Authorized(c, data.room)
       THEN Reject(c)
       ELSE \E m \in Live :
              LET room == data.room
                  role == data.role
                  explicitTarget == data.targetLanguage
                  language == MessageLanguage(data.language)
                  msg == [pc |-> "start", sender |-> c, room |-> room, role |-> role,
                          kind |-> "text",
                          language |-> TextSource(role, language, userRoles[c]),
                          target |-> IF variant = "v1"
                                       THEN resolveTargetLanguage(role, c, explicitTarget)
                                       ELSE TargetV2(role, userRoles[c]),
                          log |-> <<>>]
                  step == Translating(msg)
              IN /\ FreeSlot(m)
                 /\ msgs' = [msgs EXCEPT ![m] = step.next]
                 /\ out' = EmitAll(step.entries, c, room)
  /\ UNCHANGED <<variant, now, conn, activeRooms, userRoles, joined, timers>>

\* the await of sarvamClient.transcribe ends
TranscribeReturns(m, ok) ==
  LET msg == msgs[m]
      resolved == IF variant = "v1"
                    THEN [msg EXCEPT !.target =
                            resolveTargetLanguage(msg.role, msg.sender, msg.target)]
                    ELSE msg
      step == IF ok
                THEN Translating(resolved)
                ELSE [next |-> Finish(msg, TranscribeFailure(msg)),
                      entries |-> TranscribeFailure(msg)]
  IN
  /\ running = Nobody
  /\ running' = Handler("audio_message", msg.sender, msg.room)
  /\ msg.pc = "stt"
  /\ msgs' = Settle(m, step.next)
  /\ out' = EmitAll(step.entries, msg.sender, msg.room)
  /\ UNCHANGED <<variant, now, conn, activeRooms, userRoles, joined, timers>>

\* mutant: the catch does not return, and the handler goes on to deliver
TranslateFailure_FallsThrough(msg) ==
  Failed("Translation failed", "Failed to translate text") \o Delivered(msg, "original")

\* mutant: the catch tells the sender and forgets the room
TranslateFailure_Silent(msg) ==
  << ErrorEntry("Translation failed", "Failed to translate text") >>

\* what the handler does when the translate request has failed
TranslateFailure(msg) ==
  IF variant = "v2" THEN Delivered(msg, "original")
  ELSE IF msg.kind = "text"
    THEN Failed("Translation failed", "Failed to translate text")
  ELSE Failed("Failed to process audio message", "Failed to translate text")

\* the await of sarvamClient.translate ends
TranslateReturns(m, ok) ==
  LET msg == msgs[m]
      entries == IF ok THEN Delivered(msg, "translated") ELSE TranslateFailure(msg)
  IN
  /\ running = Nobody
  /\ running' = Handler(msg.kind \o "_message", msg.sender, msg.room)
  /\ msg.pc = "translate"
  /\ msgs' = Settle(m, Finish(msg, entries))
  /\ out' = EmitAll(entries, msg.sender, msg.room)
  /\ UNCHANGED <<variant, now, conn, activeRooms, userRoles, joined, timers>>

\* ------------------------------------------------------------------ event loop
\* the running handler returns (or reaches an await): the loop is free again
Yield ==
  /\ running # Nobody
  /\ running' = Nobody
  /\ out' = <<>>
  /\ UNCHANGED <<variant, now, conn, activeRooms, userRoles, joined, timers, msgs>>

\* ------------------------------------------------------------------ next
Next ==
  \/ \E c \in Conns : Connect(c)
  \/ \E c \in Conns, data \in JoinInputs : JoinRoom(c, data)
  \/ \E c \in Conns, room \in Rooms : GetRoomInfo(c, room)
  \/ \E c \in Conns : Disconnect(c)
  \/ CleanupFires
  \/ \E c \in Conns, data \in MessageInputs : AudioMessage(c, data)
  \/ \E c \in Conns, data \in MessageInputs : TextMessage(c, data)
  \/ \E m \in Live, ok \in BOOLEAN : TranscribeReturns(m, ok)
  \/ \E m \in Live, ok \in BOOLEAN : TranslateReturns(m, ok)
  \/ Yield

Spec == Init /\ [][Next]_vars

SpecV2 == InitV2 /\ [][Next]_vars

\* ------------------------------------------------------------------ fairness
\* The event loop runs every callback that is queued: a handler that holds the
\* loop returns, a timer that is due fires, and (the collaborators answer or
\* fail within their timeout) every awaited call comes back.
Fairness ==
  /\ WF_vars(Yield)
  /\ SF_vars(CleanupFires)
  /\ \A m \in Slots : SF_vars(\E ok \in BOOLEAN : TranscribeReturns(m, ok))
  /\ \A m \in Slots : SF_vars(\E ok \in BOOLEAN : TranslateReturns(m, ok))

FairSpec == Init /\ [][Next]_vars /\ Fairness

\* ------------------------------------------------------------------ rooms
\* the hotelName of a generate-room request: left out, or a name
LabelInputs == {Absent, "Taj"}

\* POST /api/generate-room. The id is room_<Date.now()>_<six random characters>;
\* nothing compares it with the ids the registry holds, and join_room creates
\* rooms under any id a client sends: the id drawn is any id.
GenerateRoom(roomId, hotelName) ==
  /\ running = Nobody
  /\ running' = Handler("generate-room", NoConn, roomId)
  /\ activeRooms' = MapSet(activeRooms, roomId,
                           NewRoom(IF hotelName = Absent THEN DefaultHotelName
                                   ELSE hotelName))
  /\ out' = << [type |-> "response", to |-> {}, room |-> roomId] >>
  /\ UNCHANGED <<variant, now, conn, userRoles, joined, timers, msgs>>

\* time passes between two events
Tick ==
  /\ running = Nobody
  /\ now < MaxNow
  /\ now' = now + 1
  /\ UNCHANGED <<variant, conn, activeRooms, userRoles, joined, timers, msgs, running, out>>

\* The first server with its room registry only: the generate-room requests, the
\* joins, the disconnects and the timers, with the clock running.
NextRooms ==
  \/ \E c \in Conns : Connect(c)
  \/ \E c \in Conns, data \in JoinInputs : JoinRoom(c, data)
  \/ \E c \in Conns, room \in Rooms : GetRoomInfo(c, room)
  \/ \E c \in Conns : Disconnect(c)
  \/ CleanupFires
  \/ \E roomId \in Rooms, hotelName \in LabelInputs : GenerateRoom(roomId, hotelName)
  \/ Tick
  \/ Yield

SpecRooms == Init /\ [][NextRooms]_vars

\* ------------------------------------------------------------------ two messages
\* The first server with a host and a guest that have joined, in one room or in
\* two, and room for one more activation of the message handlers: the message
\* events, their continuations and the disconnects from there on (the cleanup
\* timers stay pending).
PairSlots == 1..(MaxMsgs + 1)

HostConn == 1

GuestConn == HostConn + 1

\* the languages the two are bound with
PairLanguage(c) == IF c = HostConn THEN "en-IN" ELSE DefaultLanguage

PairRooms(guestRoom) ==
  [r \in {"r1", guestRoom} |->
     [hotelName |-> DefaultHotelName,
      createdAt |-> now,
      users |-> {c \in {HostConn, GuestConn} :
                   r = (IF c = HostConn THEN "r1" ELSE guestRoom)}]]

InitPair ==
  \E guestRoom \in Rooms :
    /\ variant = "v1"
    /\ now = 0
    /\ conn = [c \in Conns |-> IF c \in {HostConn, GuestConn} THEN "open" ELSE "new"]
    /\ activeRooms = PairRooms(guestRoom)
    /\ userRoles = [c \in {HostConn, GuestConn} |->
                      IF c = HostConn
                        THEN [room |-> "r1", role |-> "host",
                              language |-> PairLanguage(c)]
                        ELSE [room |-> guestRoom, role |-> "guest",
                              language |-> PairLanguage(c)]]
    /\ joined = [c \in Conns |->
                   IF c = HostConn THEN {"r1"}
                   ELSE IF c = GuestConn THEN {guestRoom} ELSE {}]
    /\ timers = <<>>
    /\ msgs = [m \in PairSlots |-> IdleMsg]
    /\ running = Nobody
    /\ out = <<>>

NextPair ==
  \/ \E c \in Conns : Disconnect(c)
  \/ \E c \in Conns, data \in MessageInputs : AudioMessage(c, data)
  \/ \E c \in Conns, data \in MessageInputs : TextMessage(c, data)
  \/ \E m \in Live, ok \in BOOLEAN : TranscribeReturns(m, ok)
  \/ \E m \in Live, ok \in BOOLEAN : TranslateReturns(m, ok)
  \/ Yield

PairFairness ==
  /\ WF_vars(Yield)
  /\ \A m \in PairSlots : SF_vars(\E ok \in BOOLEAN : TranscribeReturns(m, ok))
  /\ \A m \in PairSlots : SF_vars(\E ok \in BOOLEAN : TranslateReturns(m, ok))

PairSpec == InitPair /\ [][NextPair]_vars /\ PairFairness

\* ------------------------------------------------------------------ claims
BoundTo(room) == {c \in DOMAIN userRoles : userRoles[c].room = room}

RoomsOf(c) == {r \in DOMAIN activeRooms : c \in activeRooms[r].users}

InFlight(m) == msgs[m].pc # "idle"

IsStatus(e, status) == e.type = "processing_status" /\ e.body.status = status

\* the same for the entries of a pipeline's log
IsStatusEntry(e, status) == e.type = "processing_status" /\ e.status = status

IsCall(e, service) == e.type = "http" /\ e.service = service

\* the two events of a failed pipeline: the error to the sender, the error
\* status to the room, and nothing else
OnlyFailure(events, sender, room) ==
  /\ Len(events) = 2
  /\ events[1].type = "error" /\ events[1].to = {sender}
  /\ IsStatus(events[2], "error") /\ events[2].room = room

\* C1: after any joins and disconnects, the users set of every room is the set
\* of connections whose binding names the room (so a connection is counted in
\* one room at most), and every room_stats / room_info event reports that number.
C1_MemberCountIsBindings ==
  /\ \A r \in DOMAIN activeRooms : activeRooms[r].users = BoundTo(r)
  /\ \A i \in DOMAIN out :
       out[i].type \in {"room_stats", "room_info"}
         => out[i].userCount = Cardinality(BoundTo(out[i].room))

\* a disconnect has left one of two members behind, and room_stats says 1
C1_Witness ==
  /\ running.op = "disconnect"
  /\ \E i \in DOMAIN out : out[i].type = "room_stats" /\ out[i].userCount = 1

\* C2: no connection id is in the users sets of two different rooms, whatever
\* room ids the join handler accepts.
C2_NeverInTwoRooms == \A c \in Conns : Cardinality(RoomsOf(c)) <= 1

\* C3: a message event from a socket that has no binding, or whose binding names
\* another room than the event, emits one error event to the sender and nothing
\* else, and starts no pipeline (no collaborator is called).
C3_UnauthorizedOnlyError ==
  [][\A c \in Conns, data \in MessageInputs :
        ( /\ ~Has(userRoles, c) \/ userRoles[c].room # data.room
          /\ running'.conn = c
          /\ AudioMessage(c, data) \/ TextMessage(c, data) )
        => ( /\ Len(out') = 1
             /\ out'[1].type = "error"
             /\ out'[1].to = {c}
             /\ msgs' = msgs )]_vars

\* a bound socket has named a room it is not in, and got the error
C3_Witness ==
  /\ running.op \in {"audio_message", "text_message"}
  /\ Has(userRoles, running.conn)
  /\ Len(out) = 1
  /\ out[1].type = "error"
  /\ out[1].message = "Not authorized for this room"

\* C4: a cleanup timer that fires leaves every room that has a member at that
\* moment in the registry, with its record unchanged.
C4_CleanupKeepsOccupiedRooms ==
  [][running'.op = "cleanup"
       => \A r \in DOMAIN activeRooms :
            activeRooms[r].users # {}
              => Has(activeRooms', r) /\ activeRooms'[r] = activeRooms[r]]_vars

\* the timer of a room has fired after a connection joined the room again
C4_Witness ==
  /\ running.op = "cleanup"
  /\ Has(activeRooms, running.room)
  /\ activeRooms[running.room].users # {}

\* C5: once the last member of a room has disconnected, the room is removed
\* from the registry unless a connection joins it first; and a timer that fires
\* for a room that is empty removes it at that moment.
C5_EmptyRoomIsRemoved ==
  /\ \A r \in Rooms :
       ( /\ running.op = "disconnect" /\ running.room = r
         /\ Has(activeRooms, r) /\ activeRooms[r].users = {} )
       ~> ( ~Has(activeRooms, r) \/ activeRooms[r].users # {} )
  /\ [][\A r \in Rooms :
          ( /\ running'.op = "cleanup" /\ running'.room = r
            /\ Has(activeRooms, r) /\ activeRooms[r].users = {} )
          => ~Has(activeRooms', r)]_vars

\* a timer has fired and its room is gone, while nobody is bound to it
C5_Witness ==
  /\ running.op = "cleanup"
  /\ running.room \in Rooms
  /\ ~Has(activeRooms, running.room)
  /\ timers = <<>>

\* C6: a get_room_info request for a room that is not in the registry is
\* answered: some event goes to the requesting socket.
C6_NotFoundIsAnswered ==
  (running.op = "get_room_info" /\ ~Has(activeRooms, running.room))
    => \E i \in DOMAIN out : running.conn \in out[i].to

\* C7: every accepted message comes to its end, and the step that ends it
\* broadcasts a terminal processing_status (complete or error) to its room as
\* its last event.
C7_TerminalStatus ==
  /\ \A m \in Slots : InFlight(m) ~> ~InFlight(m)
  /\ [][\A m \in Slots :
          (InFlight(m) /\ msgs'[m].pc = "idle")
            => ( /\ out' # <<>>
                 /\ \/ IsStatus(out'[Len(out')], "complete")
                    \/ IsStatus(out'[Len(out')], "error")
                 /\ out'[Len(out')].room = msgs[m].room )]_vars

\* a text message whose translation failed has ended with the error status
C7_Witness ==
  /\ running.op = "text_message"
  /\ Len(out) = 2
  /\ out[1].type = "error"
  /\ IsStatus(out[2], "error")

\* C8: when the recognition call of an accepted audio message fails, the sender
\* gets an error, the room gets processing_status error, and that is all: no
\* translating status, no translation request, no translation event, and the
\* pipeline is over.
C8_RecognitionFailure ==
  [][\A m \in Slots :
        (msgs[m].pc = "stt" /\ TranscribeReturns(m, FALSE))
          => ( /\ OnlyFailure(out', msgs[m].sender, msgs[m].room)
               /\ msgs'[m].pc = "idle"
               /\ \A i \in DOMAIN msgs[m].log :
                    /\ ~IsStatusEntry(msgs[m].log[i], "translating")
                    /\ ~IsCall(msgs[m].log[i], "translate") )]_vars

\* the recognition call has failed and the two error events are out
C8_Witness ==
  /\ running.op = "audio_message"
  /\ OnlyFailure(out, running.conn, running.room)
  /\ out[1].detail = "Failed to transcribe audio"

\* C9: when the translation call of an accepted message fails, the sender gets
\* an error, the room gets processing_status error, and the pipeline stops
\* there: no translation event, no complete status.
C9_TranslationFailureStops ==
  [][\A m \in Slots :
        (msgs[m].pc = "translate" /\ TranslateReturns(m, FALSE))
          => ( /\ OnlyFailure(out', msgs[m].sender, msgs[m].room)
               /\ msgs'[m].pc = "idle" )]_vars

\* C10: a guest's message without targetLanguage is translated into en-IN; a
\* guest's text message without language has the sender's bound language as its
\* source; and the translation event of a text message carries the resolved
\* source and target.
C10_GuestRouting ==
  [][/\ \A c \in Conns, data \in MessageInputs, m \in Slots :
          ( /\ Has(userRoles, c) /\ userRoles[c].room = data.room
            /\ userRoles[c].role = "guest" /\ data.role = "guest"
            /\ data.language = Absent /\ data.targetLanguage = Absent
            /\ ~InFlight(m) /\ msgs'[m].pc # "idle"
            /\ TextMessage(c, data) )
          => ( /\ msgs'[m].language = userRoles[c].language
               /\ msgs'[m].target = ReplyLanguage )
     /\ \A m \in Slots :
          ( /\ msgs[m].pc = "stt" /\ msgs[m].role = "guest" /\ msgs[m].target = Absent
            /\ msgs'[m].pc = "translate" )
          => msgs'[m].target = ReplyLanguage
     /\ \A m \in Slots :
          (msgs[m].pc = "translate" /\ msgs[m].kind = "text" /\ TranslateReturns(m, TRUE))
          => ( /\ Len(out') = 2
               /\ out'[1].type = "translation"
               /\ out'[1].body.originalLanguage = msgs[m].language
               /\ out'[1].body.translatedLanguage = msgs[m].target
               /\ IsStatus(out'[2], "complete") )]_vars

\* the guests of a room, the socket c apart
OtherGuests(c, room) ==
  {g \in DOMAIN userRoles \ {c} :
     userRoles[g].room = room /\ userRoles[g].role = "guest"}

\* socket c, bound to the room as this role, has a text message accepted that
\* starts the pipeline m
TextAccepted(c, data, m, role) ==
  /\ Has(userRoles, c) /\ userRoles[c].room = data.room
  /\ userRoles[c].role = role /\ data.role = role
  /\ ~InFlight(m) /\ msgs'[m].pc # "idle"
  /\ TextMessage(c, data)

\* C11: a host's text message without targetLanguage is translated into the
\* bound language of a guest of the room (the first other one), or into the
\* default language when the room has no guest; a host bound with en-IN who
\* sends no language either, next to a guest bound with hi-IN, gets source
\* en-IN and target hi-IN.
C11_HostRouting ==
  [][\A c \in Conns, data \in MessageInputs, m \in Slots :
        (data.targetLanguage = Absent /\ TextAccepted(c, data, m, "host"))
        => ( /\ IF OtherGuests(c, data.room) = {}
                  THEN msgs'[m].target = DefaultLanguage
                  ELSE \E g \in OtherGuests(c, data.room) :
                         msgs'[m].target = userRoles[g].language
             /\ ( /\ data.language = Absent
                  /\ userRoles[c].language = "en-IN"
                  /\ \E g \in OtherGuests(c, data.room) : userRoles[g].language = "hi-IN" )
                => (msgs'[m].language = "en-IN" /\ msgs'[m].target = "hi-IN") )]_vars

\* the last request a pipeline has made
LastCall(msg) == msg.log[Len(msg.log)]

\* C12: a message with a targetLanguage is translated into it: the pipeline it
\* starts has that target, keeps it, asks the translation service for it, and
\* the translation event carries it, whatever the role and the room's members.
C12_ExplicitTargetWins ==
  [][/\ \A c \in Conns, data \in MessageInputs, m \in Slots :
          ( /\ data.targetLanguage # Absent
            /\ ~InFlight(m) /\ msgs'[m].pc # "idle"
            /\ running'.conn = c
            /\ AudioMessage(c, data) \/ TextMessage(c, data) )
          => msgs'[m].target = data.targetLanguage
     /\ \A m \in Slots :
          (InFlight(m) /\ msgs'[m].pc # "idle" /\ msgs[m].target # Absent)
          => msgs'[m].target = msgs[m].target
     /\ \A m \in Slots :
          (msgs[m].pc = "translate" /\ TranslateReturns(m, TRUE))
          => ( /\ IsCall(LastCall(msgs[m]), "translate")
               /\ LastCall(msgs[m]).target = msgs[m].target
               /\ out'[1].type = "translation"
               /\ out'[1].body.translatedLanguage = msgs[m].target )]_vars

\* C13: a pipeline whose source and target language are the same makes no
\* translation request, and a translation event whose two languages are the
\* same carries the original text with confidence 1.0.
C13_SameLanguageSkips ==
  [][/\ \A m \in Slots :
          (msgs[m].pc # "translate" /\ msgs'[m].pc = "translate")
          => msgs'[m].language # msgs'[m].target
     /\ \A i \in DOMAIN out' :
          ( /\ out'[i].type = "translation"
            /\ out'[i].body.originalLanguage = out'[i].body.translatedLanguage )
          => (out'[i].body.text = "original" /\ out'[i].body.confidence = "1.0")]_vars

\* C14: an accepted join_room from a socket for the room it is bound to stores
\* the language of the event in the binding and leaves the users set of the room
\* as it was; the room_stats that follows reports the same count.
C14_RejoinKeepsMembership ==
  [][\A c \in Conns, data \in JoinInputs :
        ( /\ Has(userRoles, c) /\ userRoles[c].room = data.room
          /\ ~Falsy(data.role)
          /\ running'.op = "join_room" /\ running'.conn = c
          /\ JoinRoom(c, data) )
        => ( /\ userRoles'[c].language =
                  (IF data.language = Absent THEN DefaultLanguage ELSE data.language)
             /\ userRoles'[c].room = data.room
             /\ DOMAIN activeRooms' = DOMAIN activeRooms
             /\ \A r \in DOMAIN activeRooms :
                  activeRooms'[r].users = activeRooms[r].users
             /\ out'[3].type = "room_stats"
             /\ out'[3].userCount = Cardinality(activeRooms[data.room].users) )]_vars

\* a socket has joined the room it was in, with another language than it had,
\* next to another member
C14_Witness ==
  /\ running.op = "join_room"
  /\ running.relabel
  /\ Len(out) = 3
  /\ Has(userRoles, running.conn)
  /\ userRoles[running.conn].room = running.room
  /\ Cardinality(activeRooms[running.room].users) = 2

\* C15: a join_room event without room or without role gets an error to the
\* sender, and leaves the bindings, the rooms and their users sets as they are.
C15_InvalidJoinRejected ==
  [][\A c \in Conns, data \in JoinInputs :
        ( /\ Falsy(data.room) \/ Falsy(data.role)
          /\ running'.op = "join_room" /\ running'.conn = c
          /\ JoinRoom(c, data) )
        => ( /\ Len(out') = 1
             /\ out'[1].type = "error"
             /\ out'[1].to = {c}
             /\ userRoles' = userRoles
             /\ activeRooms' = activeRooms )]_vars

\* the steps of a pipeline up to its translation request, in the order of the
\* handler's statements
PipelineOrder(kind) ==
  IF kind = "audio"
    THEN << "transcribing", "stt", "translating", "translate" >>
    ELSE << "translating", "translate" >>

StepName(e) == IF e.type = "http" THEN e.service ELSE e.status

\* the log is the first n steps of the pipeline's order
LogInOrder(msg, n) ==
  /\ Len(msg.log) = n
  /\ \A i \in 1..n :
       /\ msg.log[i].type \in {"http", "processing_status"}
       /\ StepName(msg.log[i]) = PipelineOrder(msg.kind)[i]

\* the statuses a step has added to the log are the events it has emitted
EmitsNewStatuses(old, new, events) ==
  /\ Len(events) = 1
  /\ events[1].type = "processing_status"
  /\ events[1].body = new.log[Len(new.log) - 1]
  /\ Len(new.log) = Len(old.log) + 2

\* C16: the steps of one message happen in the order of the pipeline: a pipeline
\* that waits for the recognition has announced transcribing and nothing more,
\* one that waits for the translation has gone through all steps before it in
\* order, each step emits its own status only, and the translation event and
\* then complete are emitted by the step that follows the translation request,
\* and by no other.
C16_PipelineOrder ==
  /\ [](\A m \in Slots :
          /\ msgs[m].pc = "stt" => (msgs[m].kind = "audio" /\ LogInOrder(msgs[m], 2))
          /\ msgs[m].pc = "translate"
               => LogInOrder(msgs[m], Len(PipelineOrder(msgs[m].kind))))
  /\ [][/\ \A m \in Slots :
             (InFlight(m) /\ msgs'[m].pc = "translate" /\ msgs[m].pc # "translate")
             => ( /\ msgs[m].pc = "stt"
                  /\ EmitsNewStatuses(msgs[m], msgs'[m], out') )
        /\ \A m \in Slots :
             (~InFlight(m) /\ msgs'[m].pc # "idle")
             => EmitsNewStatuses(msgs[m], msgs'[m], out')
        /\ \A i \in DOMAIN out' :
             (out'[i].type = "translation" \/ IsStatus(out'[i], "complete"))
             => \E m \in Slots :
                  /\ msgs[m].pc = "translate" /\ msgs'[m].pc = "idle"
                  /\ Len(out') = 2
                  /\ out'[1].type = "translation"
                  /\ IsStatus(out'[2], "complete")
                  /\ out'[1].room = msgs[m].room]_vars

\* an audio message has gone through: the translation event, then complete
C16_Witness ==
  /\ running.op = "audio_message"
  /\ Len(out) = 2
  /\ out[1].type = "translation"
  /\ IsStatus(out[2], "complete")

\* the users set of a room; nobody when the registry has no such room
Members(room) == IF Has(activeRooms, room) THEN activeRooms[room].users ELSE {}

RoomScoped ==
  {"user_joined", "user_left", "room_stats", "processing_status", "translation"}

\* C17 as stated: every room-scoped event of a handler goes to exactly the
\* sockets that are in the users set of its room when the handler emits it.
C17_RoomEventsToAllMembers ==
  \A i \in DOMAIN out :
    out[i].type \in RoomScoped => out[i].to = Members(out[i].room)

\* C17, amended: user_joined goes to exactly the members of the room other than
\* the socket that has joined (which gets room_joined instead); user_left,
\* room_stats, processing_status and translation go to exactly the members of
\* the room at the time of the emit.
C17_RoomEventsToMembers ==
  \A i \in DOMAIN out :
    /\ out[i].type \in RoomScoped \ {"user_joined"}
         => out[i].to = Members(out[i].room)
    /\ out[i].type = "user_joined"
         => out[i].to = Members(out[i].room) \ {out[i].userId}

\* a socket has joined a room that had a member: user_joined goes to that
\* member, room_stats to both
C17_Witness ==
  /\ running.op = "join_room"
  /\ Len(out) = 3
  /\ out[2].type = "user_joined"
  /\ out[2].to # {}
  /\ running.conn \notin out[2].to
  /\ Cardinality(out[3].to) = 2

\* the socket that sent the message of pipeline m has disconnected
Orphaned(m) == InFlight(m) /\ conn[msgs[m].sender] = "closed"

\* C18: a disconnect removes the binding of its socket at once and touches no
\* pipeline; a pipeline whose sender has disconnected comes to its end all the
\* same, and when its translation request returns it broadcasts the translation
\* event and then complete to the members the room has then.
C18_DisconnectKeepsPipeline ==
  /\ \A m \in Slots : Orphaned(m) ~> ~InFlight(m)
  /\ [][/\ \A c \in Conns :
             (running'.op = "disconnect" /\ running'.conn = c)
             => (msgs' = msgs /\ ~Has(userRoles', c))
        /\ \A m \in Slots :
             (Orphaned(m) /\ msgs[m].pc = "translate" /\ TranslateReturns(m, TRUE))
             => ( /\ Len(out') = 2
                  /\ out'[1].type = "translation"
                  /\ out'[1].to = Members(msgs[m].room)
                  /\ IsStatus(out'[2], "complete")
                  /\ out'[2].to = Members(msgs[m].room) )]_vars

\* the pipeline of a socket that is gone has delivered its translation to a
\* member that is still in the room
C18_Witness ==
  /\ running.op \in {"audio_message", "text_message"}
  /\ conn[running.conn] = "closed"
  /\ Len(out) = 2
  /\ out[1].type = "translation"
  /\ out[1].to # {}
  /\ out[1].to = Members(running.room)

\* the pipeline m ends in its catch block: the error goes to the sender first
PipelineFails(m) ==
  /\ InFlight(m)
  /\ msgs'[m].pc = "idle"
  /\ out' # <<>>
  /\ out'[1].type = "error"

\* C19: the step in which one pipeline fails changes no binding, no room, no
\* users set and no other pipeline; every pipeline that is under way comes to
\* its end, and one whose translation request returns broadcasts its translation
\* event and complete, whatever has failed beside it.
C19_FailureIsLocal ==
  /\ \A m \in PairSlots : InFlight(m) ~> ~InFlight(m)
  /\ [][/\ \A m \in PairSlots :
             PipelineFails(m)
             => ( /\ userRoles' = userRoles
                  /\ activeRooms' = activeRooms
                  /\ joined' = joined
                  /\ \A n \in PairSlots \ {m} : msgs'[n] = msgs[n] )
        /\ \A n \in PairSlots :
             (msgs[n].pc = "translate" /\ TranslateReturns(n, TRUE))
             => ( /\ Len(out') = 2
                  /\ out'[1].type = "translation"
                  /\ out'[1].room = msgs[n].room
                  /\ IsStatus(out'[2], "complete")
                  /\ msgs'[n].pc = "idle" )]_vars

\* one pipeline has just failed while another one, of the other socket, waits
\* for its translation
C19_Witness ==
  /\ running.op \in {"audio_message", "text_message"}
  /\ Len(out) = 2
  /\ out[1].type = "error"
  /\ IsStatus(out[2], "error")
  /\ \E n \in DOMAIN msgs :
       /\ msgs[n].pc = "translate"
       /\ msgs[n].sender # running.conn

\* the one other member of the room is a guest, g
OnlyPeerIsGuest(c, room, g) ==
  /\ OtherGuests(c, room) = {g}
  /\ Members(room) = {c, g}

\* C20: the target of a host's message without targetLanguage is read from the
\* bindings as they are when the message is routed: with one guest beside the
\* host in the room, it is the language that guest is bound with at that moment
\* (after a re-join, the new one), for a text message when it is accepted and
\* for an audio message when its recognition has returned.
C20_RoutingFollowsRejoin ==
  [][/\ \A c \in Conns, data \in MessageInputs, m \in Slots :
          (data.targetLanguage = Absent /\ TextAccepted(c, data, m, "host"))
          => \A g \in OtherGuests(c, data.room) :
               OnlyPeerIsGuest(c, data.room, g)
                 => msgs'[m].target = userRoles[g].language
     /\ \A m \in Slots :
          ( /\ msgs[m].pc = "stt" /\ msgs'[m].pc = "translate"
            /\ msgs[m].role = "host" /\ msgs[m].target = Absent )
          => \A g \in OtherGuests(msgs[m].sender, msgs[m].room) :
               OnlyPeerIsGuest(msgs[m].sender, msgs[m].room, g)
                 => msgs'[m].target = userRoles[g].language]_vars

\* socket c has an audio message accepted that starts the pipeline m
AudioAccepted(c, data, m) ==
  /\ Has(userRoles, c) /\ userRoles[c].room = data.room
  /\ ~InFlight(m) /\ msgs'[m].pc = "stt"
  /\ running'.conn = c
  /\ AudioMessage(c, data)

\* C21: the language an audio message is recognised in, and the source language
\* its pipeline goes on with (the original.language of its translation event),
\* is the language of the sender's binding, whatever language the event carries.
C21_AudioSourceIsBoundLanguage ==
  [][\A c \in Conns, data \in MessageInputs, m \in Slots :
        AudioAccepted(c, data, m)
        => ( /\ IsCall(LastCall(msgs'[m]), "stt")
             /\ LastCall(msgs'[m]).source = userRoles[c].language
             /\ msgs'[m].language = userRoles[c].language )]_vars

\* C22: the source language of a text message is the language of the event when
\* it has one; without one it is the language of the sender's binding for the
\* role guest, and en-IN for the role host.
C22_TextSource ==
  [][\A c \in Conns, data \in MessageInputs, m \in Slots :
        ( /\ Has(userRoles, c) /\ userRoles[c].room = data.room
          /\ data.role \in Roles
          /\ ~InFlight(m) /\ msgs'[m].pc # "idle"
          /\ running'.conn = c
          /\ TextMessage(c, data) )
        => msgs'[m].language =
             (IF data.language # Absent THEN data.language
              ELSE IF data.role = "guest" THEN userRoles[c].language
              ELSE ReplyLanguage)]_vars

\* C23: when a socket that is bound to a room joins another room, and members
\* remain in the room it leaves, they get a room_stats event for that room with
\* the count it has now.
C23_OldRoomIsNotified ==
  [][\A c \in Conns, data \in JoinInputs :
        ( /\ Has(userRoles, c) /\ userRoles[c].room # data.room
          /\ Members(userRoles[c].room) \ {c} # {}
          /\ running'.op = "join_room" /\ running'.conn = c
          /\ Len(out') = 3
          /\ JoinRoom(c, data) )
        => \E i \in DOMAIN out' :
             /\ out'[i].type = "room_stats"
             /\ out'[i].room = userRoles[c].room
             /\ out'[i].to = Members(userRoles[c].room) \ {c}
             /\ out'[i].userCount = Cardinality(Members(userRoles[c].room) \ {c})]_vars

\* C27: every processing_status event, the terminal complete and error ones
\* too, carries the role of the speaker of its message.
C27_StatusCarriesSpeaker ==
  \A i \in DOMAIN out :
    out[i].type = "processing_status" => out[i].body.speaker \in Roles

\* C24: the disconnect of a bound socket takes it out of the users set of its
\* room, emits user_left to the members that remain and then room_stats with
\* the new count to the room, sets a cleanup timer for the room exactly when the
\* users set has become empty, and deletes the binding, all in one step.
C24_DisconnectOfBoundSocket ==
  [][\A c \in Conns :
        (Has(userRoles, c) /\ running'.op = "disconnect" /\ running'.conn = c)
        => LET room == userRoles[c].room
               rest == Members(room) \ {c}
           IN /\ Has(activeRooms', room)
              /\ activeRooms'[room].users = rest
              /\ Len(out') = 2
              /\ out'[1].type = "user_left"
              /\ out'[1].userId = c
              /\ out'[1].to = rest
              /\ out'[2].type = "room_stats"
              /\ out'[2].room = room
              /\ out'[2].userCount = Cardinality(rest)
              /\ out'[2].to = rest
              /\ timers' = (IF rest = {} THEN Append(timers, room) ELSE timers)
              /\ ~Has(userRoles', c)]_vars

\* the last member has disconnected: the room is empty and its timer is set
C24_Witness ==
  /\ running.op = "disconnect"
  /\ Has(activeRooms, running.room)
  /\ Members(running.room) = {}
  /\ Len(out) = 2
  /\ timers # <<>>
  /\ timers[Len(timers)] = running.room

\* C25: the disconnect of a socket that has no binding changes no room, no
\* users set and no binding, emits nothing and sets no timer.
C25_DisconnectOfUnboundSocket ==
  [][\A c \in Conns :
        (~Has(userRoles, c) /\ running'.op = "disconnect" /\ running'.conn = c)
        => ( /\ activeRooms' = activeRooms
             /\ userRoles' = userRoles
             /\ timers' = timers
             /\ msgs' = msgs
             /\ out' = <<>> )]_vars

\* a socket that never joined has disconnected, beside a room with a member
C25_Witness ==
  /\ running.op = "disconnect"
  /\ running.room = Absent
  /\ conn[running.conn] = "closed"
  /\ \E r \in DOMAIN activeRooms : activeRooms[r].users # {}
  /\ out = <<>>

\* C26: an accepted join_room emits room_joined to the joining socket alone,
\* then user_joined to the other members of the room and not to the joiner, then
\* room_stats to all members, the joiner among them, with the joiner counted.
C26_JoinNotifications ==
  (running.op = "join_room" /\ Len(out) = 3)
  => LET c == running.conn
         room == running.room
     IN /\ out[1].type = "room_joined" /\ out[1].to = {c}
        /\ out[2].type = "user_joined" /\ out[2].to = Members(room) \ {c}
        /\ out[3].type = "room_stats" /\ out[3].to = Members(room)
        /\ c \in Members(room)
        /\ out[3].userCount = Cardinality(Members(room))

\* a second socket has joined: room_stats counts two
C26_Witness ==
  /\ running.op = "join_room"
  /\ Len(out) = 3
  /\ out[1].type = "room_joined"
  /\ out[1].to = {running.conn}
  /\ out[3].userCount = 2

\* the bound socket c sends an audio message for its room, and a pipeline starts
StartsAudio(c) ==
  /\ AudioMessage(c, [room |-> userRoles[c].room, role |-> userRoles[c].role,
                      language |-> Absent, targetLanguage |-> Absent])
  /\ \E m \in PairSlots : ~InFlight(m) /\ msgs'[m].pc = "stt"

\* C28: no pipeline waits for another one. Whenever the event loop is free, an
\* audio message of a bound socket starts its pipeline although other messages
\* are under way (as long as an activation is left), and every pipeline that
\* waits for a request can go on and end when its request returns, whatever the
\* other pipelines wait for: a later message can end before an earlier one.
C28_PipelinesNotSerialized ==
  running = Nobody
  => /\ \A c \in Conns :
          ( /\ conn[c] = "open" /\ Has(userRoles, c)
            /\ \E m \in PairSlots : ~InFlight(m) )
          => ENABLED StartsAudio(c)
     /\ \A m \in PairSlots :
          /\ msgs[m].pc = "stt" => ENABLED TranscribeReturns(m, TRUE)
          /\ msgs[m].pc = "translate" => ENABLED TranslateReturns(m, TRUE)

\* the second of two audio messages of two sockets in one room has just been
\* taken up: both transcribing statuses are out, and neither message is complete
C28_Witness ==
  /\ running.op = "audio_message"
  /\ Len(out) = 1
  /\ IsStatus(out[1], "transcribing")
  /\ \E m, n \in DOMAIN msgs :
       /\ m < n
       /\ msgs[m].pc = "stt" /\ msgs[m].kind = "audio"
       /\ msgs[n].pc = "stt" /\ msgs[n].sender = running.conn
       /\ msgs[m].sender # running.conn
       /\ msgs[m].room = msgs[n].room

\* C29: a generate-room request returns an id the registry did not hold, puts a
\* room without members and with the given or the default label under it, and
\* leaves every room the registry held as it was.
C29_CreateRoomIsFresh ==
  [][\A roomId \in Rooms, hotelName \in LabelInputs :
        ( /\ running'.op = "generate-room" /\ running'.room = roomId
          /\ GenerateRoom(roomId, hotelName) )
        => ( /\ ~Has(activeRooms, roomId)
             /\ Has(activeRooms', roomId)
             /\ activeRooms'[roomId].users = {}
             /\ activeRooms'[roomId].hotelName =
                  (IF hotelName = Absent THEN DefaultHotelName ELSE hotelName)
             /\ \A r \in DOMAIN activeRooms :
                  Has(activeRooms', r) /\ activeRooms'[r] = activeRooms[r] )]_vars

\* C30: an accepted join_room into a room the registry does not hold creates it
\* with the default label and the joiner as its only member; into a room it
\* holds, it leaves the label and the creation time as they are and adds the
\* joiner to the users set, nothing else.
C30_EnsureRoomIdempotent ==
  [][\A c \in Conns, data \in JoinInputs :
        ( /\ running'.op = "join_room" /\ running'.conn = c
          /\ Len(out') = 3
          /\ JoinRoom(c, data) )
        => LET room == data.room
           IN /\ Has(activeRooms', room)
              /\ IF Has(activeRooms, room)
                   THEN /\ activeRooms'[room].hotelName = activeRooms[room].hotelName
                        /\ activeRooms'[room].createdAt = activeRooms[room].createdAt
                        /\ activeRooms'[room].users = activeRooms[room].users \cup {c}
                   ELSE activeRooms'[room] =
                          [hotelName |-> DefaultHotelName, createdAt |-> now,
                           users |-> {c}]]_vars

\* a socket has joined a room that was generated with a label some time ago
C30_Witness ==
  /\ running.op = "join_room"
  /\ Len(out) = 3
  /\ Has(activeRooms, running.room)
  /\ activeRooms[running.room].hotelName = "Taj"
  /\ activeRooms[running.room].createdAt < now
  /\ running.conn \in activeRooms[running.room].users

\* C31: in every reachable state a connection is in the users set of room r
\* exactly when its binding names r, and every room that some binding names is
\* in the registry.
C31_BindingsAgreeWithMembership ==
  /\ \A c \in Conns, r \in DOMAIN activeRooms :
       c \in activeRooms[r].users <=> (Has(userRoles, c) /\ userRoles[c].room = r)
  /\ \A c \in DOMAIN userRoles : Has(activeRooms, userRoles[c].room)

\* C32: a cleanup timer deletes a room only when it is the timer that was set
\* at the room's latest emptying: a timer that fires while a later timer for the
\* same room is still pending leaves the room in the registry.
C32_OnlyLatestTimerDeletes ==
  [][( /\ running'.op = "cleanup"
       /\ Has(activeRooms, running'.room)
       /\ ~Has(activeRooms', running'.room) )
     => \A i \in DOMAIN timers' : timers'[i] # running'.room]_vars

\* C33: a room of the registry that has no member is deleted in the end, unless
\* a connection joins it: however it came to be empty.
C33_EmptyRoomsAreDeleted ==
  \A r \in Rooms :
    (Has(activeRooms, r) /\ activeRooms[r].users = {})
      ~> (~Has(activeRooms, r) \/ activeRooms[r].users # {})

\* socket c, bound to the room of the event, has a message accepted
MessageAccepted(c, data) ==
  /\ Has(userRoles, c) /\ userRoles[c].room = data.room
  /\ running'.conn = c
  /\ AudioMessage(c, data) \/ TextMessage(c, data)

\* C34: the speaker of every processing_status an accepted message broadcasts,
\* and the role its pipeline is routed and labelled with, is the role of the
\* sender's binding, whatever role the message event carries.
C34_SpeakerIsBoundRole ==
  [][\A c \in Conns, data \in MessageInputs, m \in Slots :
        (MessageAccepted(c, data) /\ ~InFlight(m) /\ msgs'[m].pc # "idle")
        => ( /\ msgs'[m].role = userRoles[c].role
             /\ \A i \in DOMAIN out' :
                  out'[i].type = "processing_status"
                    => out'[i].body.speaker = userRoles[c].role )]_vars

IsTerminal(e) == IsStatus(e, "complete") \/ IsStatus(e, "error")

Terminals(events) == {i \in DOMAIN events : IsTerminal(events[i])}

Translations(events) == {i \in DOMAIN events : events[i].type = "translation"}

\* the entries of a pipeline's log that are a terminal status or a translation
ClosingEntries(msg) ==
  {i \in DOMAIN msg.log :
     \/ IsStatusEntry(msg.log[i], "complete")
     \/ IsStatusEntry(msg.log[i], "error")
     \/ msg.log[i].type = "translation"}

\* C35: the step that ends an accepted message broadcasts one terminal
\* processing_status, complete or error, as its last event, and a translation
\* event only before complete; the message has broadcast neither of them
\* before, and its activation is gone afterwards, so nothing follows. A step of
\* a message handler that ends no message broadcasts no terminal status and no
\* translation.
C35_OneTerminalStatus ==
  [][running'.op \in {"audio_message", "text_message"}
     => /\ \A m \in Slots :
             (InFlight(m) /\ msgs'[m].pc = "idle")
             => ( /\ Cardinality(Terminals(out')) = 1
                  /\ IsTerminal(out'[Len(out')])
                  /\ Cardinality(Translations(out')) <= 1
                  /\ Translations(out') # {} => IsStatus(out'[Len(out')], "complete")
                  /\ ClosingEntries(msgs[m]) = {}
                  /\ msgs'[m] = IdleMsg )
        /\ (\A m \in Slots : ~(InFlight(m) /\ msgs'[m].pc = "idle"))
             => (Terminals(out') = {} /\ Translations(out') = {})]_vars

\* a text message has been translated: the translation, then complete
C35_Witness ==
  /\ running.op = "text_message"
  /\ Len(out) = 2
  /\ out[1].type = "translation"
  /\ IsStatus(out[2], "complete")
  /\ \A m \in Slots : ~InFlight(m)

\* C36: an audio message of a bound socket without targetLanguage is translated
\* into the language its bindings gave when it was accepted (for a host, the
\* language of its binding), whatever has happened to the sender's binding
\* while the recognition request was under way.
C36_TargetFixedAtAcceptance ==
  [][\A m \in PairSlots :
        ( /\ msgs[m].pc = "stt" /\ msgs[m].target = Absent
          /\ msgs[m].role = "host"
          /\ msgs'[m].pc = "translate" )
        => msgs'[m].target = PairLanguage(msgs[m].sender)]_vars

====
